---- MODULE Spec2Model ----
(***************************************************************************)
(* A model of depdf's DePage (src/depdf/page.py): the per-page pipeline    *)
(* process_page, the frame detection analyze_main_frame, the cache behind  *)
(* the objects property, and the paragraph segmenter extract_paragraph.    *)
(*                                                                         *)
(* Lengths are integers.  A glyph width (a phrase's width divided by its   *)
(* character count) is kept as an exact fraction <<num, den>>, and every   *)
(* comparison of the source is cross-multiplied, so no rounding is added.  *)
(***************************************************************************)
EXTENDS Integers, Sequences, FiniteSets, TLC

VARIABLES
    pc,                   \* position of the caller in the page's methods
    raised,               \* whether the last call ended by raising
    page,                 \* self._page: the pdfplumber page
    pid,                  \* self._pid
    config,               \* self._config
    same,                 \* self.same: header/footer zone descriptors
    same_tmp,             \* self.same_tmp: the descriptors without their mode
    orientation,          \* self.orientation
    ave_cs,               \* self.ave_cs: the page's average char size
    frame_top,            \* self.frame_top
    frame_bottom,         \* self.frame_bottom
    phrases,              \* self.phrases: the page's words, in extraction order
    ave_lh,               \* self.ave_lh: the average line height, <<num, den>>
    pagination_phrases,   \* self.pagination_phrases
    border,               \* self.border, unpacked as (ll, tt, lr, tb)
    toc_flag,             \* self.toc_flag
    _tables_raw,          \* self._tables_raw
    _tables,              \* self._tables
    _table_phrases,       \* self._table_phrases
    _images_raw,          \* self._images_raw
    _images,              \* self._images
    _image_phrases,       \* self._image_phrases
    _paragraphs,          \* self._paragraphs
    new_para_start_flag,  \* "None", "True" or "False"
    new_para_end_flag,    \* "None", "True" or "False"
    _objects,             \* the cached object list: << >> (None) or <<list>>
    loc                   \* the locals of extract_paragraph, and its loop index k

inputVars == <<page, pid, config, same, same_tmp, toc_flag>>
statVars == <<orientation, ave_cs>>
frameVars == <<frame_top, frame_bottom>>
phraseVars == <<phrases, ave_lh, pagination_phrases>>
tableVars == <<_tables_raw, _tables, _table_phrases>>
imageVars == <<_images_raw, _images, _image_phrases>>
outVars == <<_paragraphs, new_para_start_flag, new_para_end_flag>>

vars == <<pc, raised, inputVars, statVars, frameVars, phraseVars, border,
          tableVars, imageVars, outVars, _objects, loc>>

---------------------------------------------------------------------------
(* Bounds of the model.                                                    *)

MaxPhrases == 3
MaxLen == 2
MaxZones == 2

---------------------------------------------------------------------------
(* Arithmetic helpers.                                                     *)

Abs(x) == IF x < 0 THEN -x ELSE x
Max(a, b) == IF a >= b THEN a ELSE b

\* max(w / n, cs) as a fraction <<num, den>>
MaxFrac(w, n, cs) == IF w >= cs * n THEN <<w, n>> ELSE <<cs, 1>>

---------------------------------------------------------------------------
(* extract_paragraph                                                       *)

\* the paragraph style of a line: the font-size override and, after it, the
\* alignment or the left margin
StyleOf(ts, cs, center_flag, div_flag, left, ll) ==
    (IF 10 * Abs(ts[1] - cs * ts[2]) >= 3 * cs * ts[2]
        THEN ("font-size" :> ts) ELSE << >>)
    @@ (IF center_flag THEN ("align" :> "center")
        ELSE IF div_flag THEN ("margin-left" :> (left - ll))
        ELSE << >>)

\* whether a phrase is skipped by the segmenter
Excluded(i, hdr, img, tab, pag) ==
    i \in hdr \/ i \in img \/ i \in tab \/ i \in pag

\* the locals before the loop
InitLocals(bd, cs) ==
    [k |-> 1,
     p_left |-> bd[1], p_top |-> bd[2], p_right |-> bd[1], p_bottom |-> bd[2],
     left |-> bd[1], ave_ts |-> <<cs, 1>>,
     div_flag |-> FALSE, center_flag |-> FALSE,
     para_idx |-> 1, paragraphs |-> << >>, paragraph_objects |-> << >>,
     para_style |-> << >>]

\* Paragraph(pid=, para_idx=, inner_objects=, style=)
Paragraph(id, idx, objs, style) ==
    [kind |-> "Paragraph", pid |-> id, para_idx |-> idx,
     inner_objects |-> objs, style |-> style]

\* the Span's left-margin offset
SpanMargin(left, p_left) == left - p_left

\* "if not paragraphs: new_para_flag = True"
FirstParaFlag(paragraphs) == paragraphs = << >>

\* SameParagraph without its tests of the previous line's right edge
SameParagraphNoRightEdge(i, p_top, p_right, p_bottom, ts, th, ll, lr, lh) ==
    /\ \/ 5 * (i.top - p_bottom) <= 6 * th
       \/ (i.top - p_bottom) * lh[2] <= lh[1]
    /\ \/ /\ Abs(i.x0 - ll) * ts[2] <= ts[1]
          /\ Abs((i.bottom - i.top) - (p_bottom - p_top)) <= 1
       \/ Abs(i.x0 - ll) <= 1

\* the two tests that take a line, already a candidate new paragraph, back into
\* the paragraph of the line above it
SameParagraph(i, p_top, p_right, p_bottom, ts, th, ll, lr, lh) ==
    /\ \/ 5 * (i.top - p_bottom) <= 6 * th
       \/ (i.top - p_bottom) * lh[2] <= lh[1]
    /\ \/ /\ Abs(i.x0 - ll) * ts[2] <= ts[1]
          /\ 2 * ts[2] * (lr - p_right) < 3 * ts[1]
          /\ Abs((i.bottom - i.top) - (p_bottom - p_top)) <= 1
       \/ /\ Abs(i.x0 - ll) <= 1
          /\ 2 * ts[2] * (lr - p_right) <= 3 * ts[1]

\* one iteration of the loop over self.phrases, for a phrase that is not skipped
LoopBody(L, i, id, bd, cs, lh, pw, toc) ==
    LET ll == bd[1]
        lr == bd[3]
        ts == MaxFrac(i.x1 - i.x0, i.n, cs)
        th == Max(i.bottom - i.top, cs)
        bbox == <<i.x0, i.top, i.x1, i.bottom>>
        left == i.x0
        top == i.top
        right == i.x1
        bottom == i.bottom
        first == FirstParaFlag(L.paragraphs)
        gapBig == 4 * (bottom - L.p_bottom) >= th
        merged == SameParagraph(i, L.p_top, L.p_right, L.p_bottom, ts, th,
                                ll, lr, lh)
        sameLine == /\ Abs(left - L.p_right) * ts[2] >= 2 * ts[1]
                    /\ 2 * ts[2] * Abs(top - L.p_top) <= ts[1]
        new_para_flag ==
            IF toc THEN first \/ gapBig
            ELSE IF gapBig THEN ~merged
            ELSE IF sameLine THEN FALSE
            ELSE first
        new_line_flag ==
            IF toc THEN gapBig
            ELSE IF gapBig THEN TRUE
            ELSE ~sameLine
        flagged == ~toc /\ gapBig /\ new_para_flag
        center_flag == /\ flagged
                       /\ 2 * ts[2] * Abs(pw - right - left) <= ts[1]
                       /\ ts[2] * Abs(lr - right) >= 4 * ts[1]
        div_flag == flagged /\ ts[2] * (left - ll) > 4 * ts[1]
        close == new_para_flag /\ L.paragraph_objects # << >>
        paragraphs1 ==
            IF close
            THEN Append(L.paragraphs,
                        Paragraph(id, L.para_idx, L.paragraph_objects,
                                  L.para_style))
            ELSE L.paragraphs
        style1 == IF close THEN << >> ELSE L.para_style
        objects1 == IF close THEN << >> ELSE L.paragraph_objects
        style2 == IF style1 = << >>
                  THEN StyleOf(ts, cs, center_flag, div_flag, left, ll)
                  ELSE style1
        entry == IF new_line_flag
                 THEN [kind |-> "Text", bbox |-> bbox, n |-> i.n, ml |-> 0]
                 ELSE [kind |-> "Span", bbox |-> bbox, n |-> i.n,
                       ml |-> SpanMargin(left, L.p_left)]
    IN  [k |-> L.k + 1,
         p_left |-> left, p_top |-> top, p_right |-> right, p_bottom |-> bottom,
         left |-> left, ave_ts |-> ts,
         div_flag |-> div_flag, center_flag |-> center_flag,
         para_idx |-> IF close THEN L.para_idx + 1 ELSE L.para_idx,
         paragraphs |-> paragraphs1,
         paragraph_objects |-> Append(objects1, entry),
         para_style |-> style2]

\* the style given to the page's last paragraph
LastStyle(L, cs, ll) ==
    StyleOf(L.ave_ts, cs, L.center_flag, L.div_flag, L.left, ll)

\* CloseLast leaving the entries gathered since the last closure out
CloseLastDropped(L, id, cs, ll) == L.paragraphs

\* "if paragraph_objects:" after the loop: the last paragraph
CloseLast(L, id, cs, ll) ==
    IF L.paragraph_objects # << >>
    THEN Append(L.paragraphs,
                Paragraph(id, L.para_idx, L.paragraph_objects,
                          LastStyle(L, cs, ll)))
    ELSE L.paragraphs

\* the glyph width the two continuation flags are measured with
FlagGlyphWidth(phr, cs) ==
    MaxFrac(phr[1].x1 - phr[1].x0, phr[1].n, cs)

\* StartFlag measuring the distance, whichever side of the border it is on
StartFlagAbs(paragraphs, phr, ll, cs) ==
    IF paragraphs = << >> THEN "None"
    ELSE IF phr = << >> THEN "True"
    ELSE LET g == FlagGlyphWidth(phr, cs)
         IN  IF Abs(phr[1].x0 - ll) * g[2] <= g[1] THEN "False" ELSE "True"

\* new_para_start_flag
StartFlag(paragraphs, phr, ll, cs) ==
    IF paragraphs = << >> THEN "None"
    ELSE IF phr = << >> THEN "True"
    ELSE LET g == FlagGlyphWidth(phr, cs)
         IN  IF (phr[1].x0 - ll) * g[2] <= g[1] THEN "False" ELSE "True"

\* new_para_end_flag
EndFlag(paragraphs, phr, p_right, lr, cs) ==
    IF paragraphs = << >> THEN "None"
    ELSE IF phr = << >> THEN "True"
    ELSE LET g == FlagGlyphWidth(phr, cs)
         IN  IF 2 * g[2] * Abs(p_right - lr) <= 3 * g[1] THEN "False" ELSE "True"

---------------------------------------------------------------------------
(* The segmenter run on its own: the page's state when extract_paragraph   *)
(* is entered is drawn from bounded sets.                                  *)

Xs == {0, 12, 30}
Ws == {4, 28}
Tops == {0, 8, 20}
LineH == {4}
PageWidths == {40}
Lefts == {0, 12}
Rights == {40}
BorderTops == {0}
LineHeights == {<<2, 1>>, <<12, 1>>}
CharSizes == {4}

PhrasePool ==
    {[x0 |-> x, top |-> t, x1 |-> x + w, bottom |-> t + h, n |-> n] :
        x \in Xs, w \in Ws, t \in Tops, h \in LineH, n \in 1..MaxLen}

\* words come out of the extraction top to bottom and, on a line, left to right
InOrder(s) ==
    \A j \in 1..(Len(s) - 1) :
        \/ s[j].top < s[j + 1].top
        \/ s[j].top = s[j + 1].top /\ s[j].x1 <= s[j + 1].x0

PhraseSeqs(pw) ==
    UNION {{s \in [1..m -> {p \in PhrasePool : p.x1 <= pw}] : InOrder(s)} :
              m \in 0..MaxPhrases}

\* a page of which only the size matters
BlankPage(w, h) == [width |-> w, height |-> h]

\* the configuration's fields that the modelled methods read
Config(mft) == [main_frame_tolerance |-> mft]

\* the descriptors of self.same without their mode
SameTmp(zones) ==
    {[level |-> zones[j].level, top |-> zones[j].top,
      bottom |-> zones[j].bottom] : j \in 1..Len(zones)}

\* the instance after __init__: the constructor's assignments over the class
\* attributes
NewDePage(pg, id, cfg, zones) ==
    [page |-> pg, pid |-> id, config |-> cfg, same |-> zones,
     same_tmp |-> SameTmp(zones),
     orientation |-> "", ave_cs |-> 0,
     frame_top |-> 0, frame_bottom |-> pg.width,
     phrases |-> << >>, ave_lh |-> <<3, 1>>, pagination_phrases |-> {},
     border |-> <<0, pg.width, 0, pg.height>>,
     toc_flag |-> FALSE,
     _tables_raw |-> << >>, _tables |-> << >>, _table_phrases |-> {},
     _images_raw |-> << >>, _images |-> << >>, _image_phrases |-> {},
     _paragraphs |-> << >>,
     new_para_start_flag |-> "None", new_para_end_flag |-> "None",
     _objects |-> << >>, raised |-> FALSE]

\* the instance's fields are those of the record S
Fields(S) ==
    /\ page = S.page /\ pid = S.pid /\ config = S.config /\ same = S.same
    /\ same_tmp = S.same_tmp
    /\ orientation = S.orientation /\ ave_cs = S.ave_cs
    /\ frame_top = S.frame_top /\ frame_bottom = S.frame_bottom
    /\ phrases = S.phrases /\ ave_lh = S.ave_lh
    /\ pagination_phrases = S.pagination_phrases
    /\ border = S.border /\ toc_flag = S.toc_flag
    /\ _tables_raw = S._tables_raw /\ _tables = S._tables
    /\ _table_phrases = S._table_phrases
    /\ _images_raw = S._images_raw /\ _images = S._images
    /\ _image_phrases = S._image_phrases
    /\ _paragraphs = S._paragraphs
    /\ new_para_start_flag = S.new_para_start_flag
    /\ new_para_end_flag = S.new_para_end_flag
    /\ _objects = S._objects /\ raised = S.raised

\* the instance's fields as a record
Self ==
    [page |-> page, pid |-> pid, config |-> config, same |-> same,
     same_tmp |-> same_tmp, orientation |-> orientation, ave_cs |-> ave_cs,
     frame_top |-> frame_top, frame_bottom |-> frame_bottom,
     phrases |-> phrases, ave_lh |-> ave_lh,
     pagination_phrases |-> pagination_phrases,
     border |-> border, toc_flag |-> toc_flag,
     _tables_raw |-> _tables_raw, _tables |-> _tables,
     _table_phrases |-> _table_phrases,
     _images_raw |-> _images_raw, _images |-> _images,
     _image_phrases |-> _image_phrases,
     _paragraphs |-> _paragraphs,
     new_para_start_flag |-> new_para_start_flag,
     new_para_end_flag |-> new_para_end_flag,
     _objects |-> _objects, raised |-> raised]

\* a method leaves the instance's fields as the record S
FieldsNext(S) ==
    /\ page' = S.page /\ pid' = S.pid /\ config' = S.config /\ same' = S.same
    /\ same_tmp' = S.same_tmp
    /\ orientation' = S.orientation /\ ave_cs' = S.ave_cs
    /\ frame_top' = S.frame_top /\ frame_bottom' = S.frame_bottom
    /\ phrases' = S.phrases /\ ave_lh' = S.ave_lh
    /\ pagination_phrases' = S.pagination_phrases
    /\ border' = S.border /\ toc_flag' = S.toc_flag
    /\ _tables_raw' = S._tables_raw /\ _tables' = S._tables
    /\ _table_phrases' = S._table_phrases
    /\ _images_raw' = S._images_raw /\ _images' = S._images
    /\ _image_phrases' = S._image_phrases
    /\ _paragraphs' = S._paragraphs
    /\ new_para_start_flag' = S.new_para_start_flag
    /\ new_para_end_flag' = S.new_para_end_flag
    /\ _objects' = S._objects /\ raised' = S.raised

InitPara ==
    /\ pc = "extract_paragraph"
    /\ \E w \in PageWidths, l \in Lefts, t \in BorderTops,
          r \in Rights, cs \in CharSizes, lh \in LineHeights, toc \in BOOLEAN,
          e \in 0..MaxPhrases, img \in BOOLEAN :
       \E s \in PhraseSeqs(w) :
          /\ e <= Len(s)
          /\ e = 0 => img
          /\ Fields([NewDePage(BlankPage(w, 60), 1, Config(<< >>), << >>)
                        EXCEPT !.phrases = s,
                               !.border = <<l, t, r, 60>>,
                               !.ave_cs = cs,
                               !.ave_lh = lh,
                               !.toc_flag = toc,
                               !.frame_bottom = 60,
                               !._image_phrases =
                                   IF img /\ e > 0 THEN {s[e]} ELSE {},
                               !.pagination_phrases =
                                   IF ~img /\ e > 0 THEN {s[e]} ELSE {}])
    /\ loc = InitLocals(border, ave_cs)

\* one turn of "for i in self.phrases" on the instance S
LoopTurn(L, S) ==
    IF Excluded(S.phrases[L.k], S.same_tmp, S._image_phrases,
                S._table_phrases, S.pagination_phrases)
    THEN [L EXCEPT !.k = @ + 1]
    ELSE LoopBody(L, S.phrases[L.k], S.pid, S.border, S.ave_cs, S.ave_lh,
                  S.page.width, S.toc_flag)

\* the code after the loop: the last paragraph and the two flags
FinishParagraphs(L, S) ==
    LET ps == CloseLast(L, S.pid, S.ave_cs, S.border[1])
    IN  [S EXCEPT !._paragraphs = ps,
                  !.new_para_start_flag =
                      StartFlag(ps, S.phrases, S.border[1], S.ave_cs),
                  !.new_para_end_flag =
                      EndFlag(ps, S.phrases, L.p_right, S.border[3], S.ave_cs)]

LoopStep ==
    /\ pc = "extract_paragraph"
    /\ loc.k <= Len(phrases)
    /\ loc' = LoopTurn(loc, Self)
    /\ UNCHANGED <<pc, raised, inputVars, statVars, frameVars, phraseVars,
                   border, tableVars, imageVars, outVars, _objects>>

LoopExit ==
    /\ pc = "extract_paragraph"
    /\ loc.k > Len(phrases)
    /\ FieldsNext(FinishParagraphs(loc, Self))
    /\ loc' = [loc EXCEPT !.paragraphs = CloseLast(loc, pid, ave_cs, border[1])]
    /\ pc' = "done"

NextPara == LoopStep \/ LoopExit

SpecPara == InitPara /\ [][NextPara]_vars

---------------------------------------------------------------------------
(* The segmenter on the two lines of the paragraph-merge example: line A   *)
(* (50,100,200,112), line B (50,126,200,138), border left 50 and right     *)
(* 400, average line height 12, ave_cs up to 12, texts of any length.      *)

ExampleCharSizes == 1..12
ExampleBorderTops == {0, 100}
ExamplePageWidths == {450, 600}

\* the character counts of the two lines' texts
ExampleLens == (1..MaxLen) \cup {15, 30}

LineA(n) == [x0 |-> 50, top |-> 100, x1 |-> 200, bottom |-> 112, n |-> n]
LineB(n) == [x0 |-> 50, top |-> 126, x1 |-> 200, bottom |-> 138, n |-> n]

InitExample ==
    /\ pc = "extract_paragraph"
    /\ \E w \in ExamplePageWidths, na \in ExampleLens, nb \in ExampleLens,
          t \in ExampleBorderTops, cs \in ExampleCharSizes :
          Fields([NewDePage(BlankPage(w, 800), 1, Config(<< >>), << >>)
                     EXCEPT !.phrases = <<LineA(na), LineB(nb)>>,
                            !.border = <<50, t, 400, 700>>,
                            !.ave_cs = cs,
                            !.ave_lh = <<12, 1>>,
                            !.frame_bottom = 800])
    /\ loc = InitLocals(border, ave_cs)

SpecExample == InitExample /\ [][NextPara]_vars

---------------------------------------------------------------------------
(* analyze_main_frame                                                      *)

SetMax(S) == CHOOSE x \in S : \A y \in S : y <= x
SetMin(S) == CHOOSE x \in S : \A y \in S : x <= y

\* main_frame_tolerance, or half of ave_cs when it is not configured (the char
\* sizes of the model are even, so the half is exact)
MainFrameTolerance(cfg, cs) ==
    IF cfg.main_frame_tolerance = << >> THEN cs \div 2
    ELSE cfg.main_frame_tolerance[1]

\* FrameTop taking the head zones of every orientation
FrameTopAnyMode(zones, mode, mft) ==
    LET tl_bs == {zones[j].bottom + mft :
                     j \in {j \in 1..Len(zones) : zones[j].level = "head"}}
    IN  IF tl_bs # {} THEN SetMax(tl_bs) ELSE 0

\* tl_bs: the bottoms, plus the tolerance, of the head zones of the page's
\* orientation; frame_top is their maximum, or 0
FrameTop(zones, mode, mft) ==
    LET tl_bs == {zones[j].bottom + mft :
                     j \in {j \in 1..Len(zones) :
                               zones[j].mode = mode /\ zones[j].level = "head"}}
    IN  IF tl_bs # {} THEN SetMax(tl_bs) ELSE 0

\* bl_ts: the tops of the tail zones of the page's orientation; frame_bottom
\* is their minimum, or the page's height
FrameBottom(zones, mode, h) ==
    LET bl_ts == {zones[j].top :
                     j \in {j \in 1..Len(zones) :
                               zones[j].mode = mode /\ zones[j].level = "tail"}}
    IN  IF bl_ts # {} THEN SetMin(bl_ts) ELSE h

Modes == {"portrait", "landscape"}
ZoneBands == {<<0, 4>>, <<10, 14>>, <<50, 56>>}
Tolerances == {<< >>, <<0>>, <<8>>}
PageHeights == {60}

ZonePool ==
    {[mode |-> m, level |-> l, top |-> b[1], bottom |-> b[2]] :
        m \in Modes, l \in {"head", "tail"}, b \in ZoneBands}

InitFrame ==
    /\ pc = "analyze_main_frame"
    /\ \E h \in PageHeights, t \in Tolerances, cs \in CharSizes, m \in Modes,
          z \in UNION {[1..k -> ZonePool] : k \in 0..MaxZones} :
          Fields([NewDePage(BlankPage(40, h), 1, Config(t), z)
                     EXCEPT !.ave_cs = cs, !.orientation = m])
    /\ loc = InitLocals(border, ave_cs)

AnalyzeMainFrame ==
    /\ pc = "analyze_main_frame"
    /\ frame_top' = FrameTop(same, orientation,
                             MainFrameTolerance(config, ave_cs))
    /\ frame_bottom' = FrameBottom(same, orientation, page.height)
    /\ pc' = "done"
    /\ UNCHANGED <<raised, inputVars, statVars, phraseVars, border, tableVars,
                   imageVars, outVars, _objects, loc>>

NextFrame == AnalyzeMainFrame

SpecFrame == InitFrame /\ [][NextFrame]_vars

---------------------------------------------------------------------------
(* process_page, and the cache behind the objects property                 *)

BBox(w) == <<w.x0, w.top, w.x1, w.bottom>>
InsideBox(a, b) == b[1] <= a[1] /\ a[3] <= b[3] /\ b[2] <= a[2] /\ a[4] <= b[4]
Overlap(a, b) == a[1] < b[3] /\ b[1] < a[3] /\ a[2] < b[4] /\ b[2] < a[4]

\* the dict extract_words gives for a word of the page
WordDict(w) ==
    [x0 |-> w.x0, top |-> w.top, x1 |-> w.x1, bottom |-> w.bottom, n |-> w.n]

\* analyze_page_orientation: from the page's aspect ratio
AnalyzePageOrientation(pg) ==
    IF pg.width > pg.height THEN "landscape" ELSE "portrait"

\* analyze_page_attributes: analyze_char_size's result is the page's char_size
AnalyzePageAttributes(S) ==
    [S EXCEPT !.ave_cs = S.page.char_size,
              !.orientation = AnalyzePageOrientation(S.page)]

\* analyze_main_frame on the instance S
AnalyzeMainFrameOf(S) ==
    [S EXCEPT !.frame_top =
                  FrameTop(S.same, S.orientation,
                           MainFrameTolerance(S.config, S.ave_cs)),
              !.frame_bottom = FrameBottom(S.same, S.orientation, S.page.height)]

\* analyze_page_num_word: the words in the page-number zone at the page's end
\* (it hands back the dicts of the phrase list, which the normalisation below
\* then changes in place)
AnalyzePageNumWord(w, pg) ==
    /\ 10 * w.top >= 8 * pg.height
    /\ 10 * w.x0 >= 3 * pg.width
    /\ 10 * w.x1 <= 7 * pg.width

\* a word with its top and bottom set to the medians over its glyphs; when the
\* crop fails the word keeps its bounds
NormalizedWord(w, pg) ==
    IF pg.bad = "crop" THEN WordDict(w)
    ELSE [WordDict(w) EXCEPT !.top = w.gtop, !.bottom = w.gbottom]

RECURSIVE SumGaps(_, _)
SumGaps(ws, J) ==
    IF J = {} THEN 0
    ELSE LET j == CHOOSE j \in J : TRUE
         IN  (ws[j + 1].top - ws[j].bottom) + SumGaps(ws, J \ {j})

\* the mean of the positive gaps between successive words, or ave_cs / 2
AverageLineHeight(ws, cs) ==
    LET J == {j \in 1..(Len(ws) - 1) : ws[j + 1].top - ws[j].bottom > 0}
    IN  IF J # {} THEN <<SumGaps(ws, J), Cardinality(J)>> ELSE <<cs, 2>>

ExtractPhrases(S) ==
    LET ws == SelectSeq(S.page.words,
                        LAMBDA w : w.top >= S.frame_top
                                   /\ w.bottom <= S.frame_bottom)
    IN  [S EXCEPT !.phrases = [j \in 1..Len(ws) |-> NormalizedWord(ws[j], S.page)],
                  !.ave_lh = AverageLineHeight(ws, S.ave_cs),
                  !.pagination_phrases =
                      {NormalizedWord(ws[j], S.page) :
                          j \in {j \in 1..Len(ws) :
                                    AnalyzePageNumWord(ws[j], S.page)}}]

\* analyze_lines raises when a query outside its try block fails
AnalyzeLinesRaises(pg, cfg) ==
    \/ pg.bad = "edges"
    \/ cfg.dotted_line_flag /\ pg.bad = "lines"
    \/ cfg.curved_line_flag /\ pg.bad = "curves"

\* sorted(..., key=lambda x: x.bbox[1]) over bounding boxes: a stable sort
RECURSIVE InsertBox(_, _)
InsertBox(bs, b) ==
    IF bs = << >> THEN <<b>>
    ELSE IF bs[Len(bs)][2] <= b[2] THEN Append(bs, b)
    ELSE Append(InsertBox(SubSeq(bs, 1, Len(bs) - 1), b), bs[Len(bs)])

RECURSIVE SortBoxes(_)
SortBoxes(bs) ==
    IF bs = << >> THEN << >>
    ELSE InsertBox(SortBoxes(SubSeq(bs, 1, Len(bs) - 1)), bs[Len(bs)])

\* convert_plumber_table's Table
Table(b, id, tid) == [kind |-> "Table", bbox |-> b, pid |-> id, tid |-> tid]

ExtractTables(S) ==
    LET raw == IF S.page.bad = "find_tables" THEN << >>
               ELSE SortBoxes(S.page.tables)
    IN  [S EXCEPT !._tables_raw = raw,
                  !._tables = [t \in 1..Len(raw) |-> Table(raw[t], S.pid, t)]]

\* merge_page_figures: the page's figure regions that overlap no table
MergePageFigures(pg, tables_raw) ==
    SelectSeq(pg.figures,
              LAMBDA f : \A t \in 1..Len(tables_raw) : ~Overlap(f, tables_raw[t]))

\* whether page.within_bbox fails for a region
RegionFails(pg, b) ==
    \/ pg.bad = "within_bbox"
    \/ \E j \in 1..Len(pg.figures) : pg.bad = pg.fault[j] /\ pg.figures[j] = b

Image(b, id, idx, pg) ==
    [kind |-> "Image", bbox |-> b, pid |-> id, img_idx |-> idx,
     scan |-> 10 * (b[3] - b[1]) * (b[4] - b[2]) >= 7 * pg.width * pg.height]

\* the regions extract_images makes an Image of
BigEnough(b, mis) == ~((b[4] - b[2]) <= mis \/ (b[3] - b[1]) <= mis)

\* whether the first loop of extract_images raises: the lookup of a region
\* that is big enough fails
ImageLoopRaises(pg, raw, mis) ==
    \E j \in 1..Len(raw) : BigEnough(raw[j], mis) /\ RegionFails(pg, raw[j])

\* the words of the regions whose lookup succeeds
ImageWords(pg, raw) ==
    {WordDict(pg.words[j]) :
        j \in {j \in 1..Len(pg.words) :
                  \E r \in 1..Len(raw) :
                      /\ ~RegionFails(pg, raw[r])
                      /\ InsideBox(BBox(pg.words[j]), raw[r])}}

ExtractImages(S) ==
    LET raw == MergePageFigures(S.page, S._tables_raw)
        mis == S.config.min_image_size
        big == {j \in 1..Len(raw) : BigEnough(raw[j], mis)}
        S1 == [S EXCEPT !._images_raw = raw]
        made == SelectSeq([j \in 1..Len(raw) |->
                              IF j \in big
                              THEN Image(raw[j], S.pid, j, S.page)
                              ELSE [kind |-> "None"]],
                          LAMBDA o : o.kind = "Image")
    IN  IF ImageLoopRaises(S.page, raw, mis)
        THEN [S1 EXCEPT !.raised = TRUE]
        ELSE [S1 EXCEPT !._images = made,
                        !._image_phrases = ImageWords(S.page, raw)]

\* calculate_paragraph_border: the tight rectangle of the phrases left to the
\* segmenter, or the whole page
CalculateParagraphBorder(S) ==
    LET body == {S.phrases[j] :
                    j \in {j \in 1..Len(S.phrases) :
                              ~Excluded(S.phrases[j], S.same_tmp,
                                        S._image_phrases, S._table_phrases,
                                        S.pagination_phrases)}}
    IN  IF body = {} THEN <<0, 0, S.page.width, S.page.height>>
        ELSE <<SetMin({i.x0 : i \in body}), SetMin({i.top : i \in body}),
               SetMax({i.x1 : i \in body}), SetMax({i.bottom : i \in body})>>

AnalyzeParagraphBorder(S) == [S EXCEPT !.border = CalculateParagraphBorder(S)]

RECURSIVE RunLoop(_, _)
RunLoop(L, S) ==
    IF L.k > Len(S.phrases) THEN L ELSE RunLoop(LoopTurn(L, S), S)

\* extract_paragraph, from its first line to its last
ExtractParagraph(S) ==
    FinishParagraphs(RunLoop(InitLocals(S.border, S.ave_cs), S), S)

\* Paragraph.bbox[1]: the top of the paragraph's first line
ParagraphTop(o) == o.inner_objects[1].bbox[2]

ObjectTop(o) == IF o.kind = "Paragraph" THEN ParagraphTop(o) ELSE o.bbox[2]

\* sorted(object_list, key=lambda x: x.bbox[1]): a stable sort
RECURSIVE InsertObject(_, _)
InsertObject(os, o) ==
    IF os = << >> THEN <<o>>
    ELSE IF ObjectTop(os[Len(os)]) <= ObjectTop(o) THEN Append(os, o)
    ELSE Append(InsertObject(SubSeq(os, 1, Len(os) - 1), o), os[Len(os)])

RECURSIVE SortObjects(_)
SortObjects(os) ==
    IF os = << >> THEN << >>
    ELSE InsertObject(SortObjects(SubSeq(os, 1, Len(os) - 1)), os[Len(os)])

\* the object list: object_key_list is _tables, _paragraphs, _images
CollectObjects(S) == SortObjects(S._tables \o S._paragraphs \o S._images)

\* process_page; a stage that raises leaves the later stages undone and the
\* cache empty
ProcessPage(S) ==
    LET S3 == ExtractPhrases(AnalyzeMainFrameOf(AnalyzePageAttributes(S)))
        S4 == IF ~S3.config.table_flag THEN S3
              ELSE IF AnalyzeLinesRaises(S3.page, S3.config)
                   THEN [S3 EXCEPT !.raised = TRUE]
              ELSE ExtractTables(S3)
        S5 == IF S4.raised \/ ~S4.config.image_flag THEN S4
              ELSE ExtractImages(S4)
        S6 == IF S5.raised \/ ~S5.config.paragraph_flag THEN S5
              ELSE ExtractParagraph(AnalyzeParagraphBorder(S5))
    IN  IF S6.raised THEN S6
        ELSE [S6 EXCEPT !._objects = <<CollectObjects(S6)>>]

\* Base.refresh: the cached properties (_cached_properties: _screenshot,
\* _objects and the base class's own) are dropped
BaseRefresh(S) == [S EXCEPT !._objects = << >>]

\* DePage.refresh: set_global, then the base class's refresh
Refresh(S) == BaseRefresh(S)

---------------------------------------------------------------------------
(* The pages, configurations and page numbers an instance is given.        *)

PageConfig(tf, if, pf, lf) ==
    [table_flag |-> tf, image_flag |-> if, paragraph_flag |-> pf,
     dotted_line_flag |-> lf, curved_line_flag |-> lf,
     main_frame_tolerance |-> << >>, min_image_size |-> 3]

PageConfigs ==
    {PageConfig(tf, if, pf, lf) :
        tf \in BOOLEAN, if \in BOOLEAN, pf \in BOOLEAN, lf \in BOOLEAN}

Pids == {1, 2}

Word(x0, top, x1, bottom, n, gtop, gbottom) ==
    [x0 |-> x0, top |-> top, x1 |-> x1, bottom |-> bottom, n |-> n,
     gtop |-> gtop, gbottom |-> gbottom]

Faults == {"none", "crop", "edges", "within_bbox", "lines", "curves",
           "find_tables", "region_1", "region_2"}

\* a page with a header line, a body line, a table with a word in it, a
\* figure with two words in it (the second of glyphs of two heights), a
\* small figure and a page number
PageA(bad) ==
    [id |-> "A", width |-> 40, height |-> 60, char_size |-> 4, bad |-> bad,
     words |-> <<Word(0, 0, 8, 2, 2, 0, 2),
                 Word(0, 8, 28, 12, 7, 8, 12),
                 Word(12, 20, 20, 24, 2, 20, 24),
                 Word(4, 32, 10, 36, 2, 32, 36),
                 Word(12, 32, 18, 36, 2, 33, 36),
                 Word(18, 50, 22, 54, 1, 50, 54)>>,
     tables |-> <<<<10, 18, 30, 26>>>>,
     figures |-> <<<<2, 30, 20, 40>>, <<30, 30, 32, 32>>>>,
     fault |-> <<"region_1", "region_2">>]

\* a page of two body lines
PageB ==
    [id |-> "B", width |-> 40, height |-> 60, char_size |-> 4, bad |-> "none",
     words |-> <<Word(0, 8, 36, 12, 9, 8, 12),
                 Word(0, 14, 20, 18, 5, 14, 18)>>,
     tables |-> << >>,
     figures |-> << >>,
     fault |-> << >>]

Pages == {PageA(b) : b \in Faults} \cup {PageB}

\* a header band and a footer band of portrait pages
PageZones ==
    <<[mode |-> "portrait", level |-> "head", top |-> 0, bottom |-> 2],
      [mode |-> "portrait", level |-> "tail", top |-> 56, bottom |-> 60]>>

InitPage ==
    /\ pc = "idle"
    /\ \E pg \in Pages, id \in Pids, cfg \in PageConfigs :
          Fields(NewDePage(pg, id, cfg, PageZones))
    /\ loc = InitLocals(border, ave_cs)

\* a read of the objects property with nothing cached: process_page runs and
\* its list is cached (a read of a cached list changes nothing)
GetObjects ==
    /\ pc = "idle"
    /\ _objects = << >>
    /\ FieldsNext(ProcessPage([Self EXCEPT !.raised = FALSE]))
    /\ UNCHANGED <<pc, loc>>

\* config setter
SetConfig ==
    /\ pc = "idle"
    /\ \E cfg \in PageConfigs :
          FieldsNext(Refresh([Self EXCEPT !.config = cfg, !.raised = FALSE]))
    /\ UNCHANGED <<pc, loc>>

\* pid setter
SetPid ==
    /\ pc = "idle"
    /\ \E id \in Pids :
          FieldsNext([Refresh(Self) EXCEPT !.pid = id, !.raised = FALSE])
    /\ UNCHANGED <<pc, loc>>

\* page setter
SetPage ==
    /\ pc = "idle"
    /\ \E pg \in Pages :
          FieldsNext([Refresh(Self) EXCEPT !.page = pg, !.raised = FALSE])
    /\ UNCHANGED <<pc, loc>>

NextPage == GetObjects \/ SetConfig \/ SetPid \/ SetPage

SpecPage == InitPage /\ [][NextPage]_vars

---------------------------------------------------------------------------
(* Properties of extract_paragraph.                                        *)

\* the phrases the loop does not skip, in order
Processed ==
    SelectSeq(phrases, LAMBDA i : ~Excluded(i, same_tmp, _image_phrases,
                                            _table_phrases, pagination_phrases))

\* the glyph width of a phrase: the larger of width / character count and ave_cs
GlyphOf(i) == MaxFrac(i.x1 - i.x0, i.n, ave_cs)

\* C6, as stated: with at least one paragraph, new_para_start_flag is false
\* exactly when the page's first phrase starts within one glyph width of the
\* border's left edge (a distance, on either side), and it is unset on a page
\* without paragraphs.
C6_StartFlagWithinGlyphWidth ==
    pc = "done" =>
        IF _paragraphs = << >> THEN new_para_start_flag = "None"
        ELSE LET g == GlyphOf(phrases[1])
             IN  new_para_start_flag =
                     (IF Abs(phrases[1].x0 - border[1]) * g[2] <= g[1]
                      THEN "False" ELSE "True")

\* C6, amended: the flag is false exactly when the first phrase's left edge is
\* no more than one glyph width to the right of the border's left edge, which
\* includes a first phrase lying anywhere to the left of it.
C6_StartFlagSignedGap ==
    pc = "done" =>
        IF _paragraphs = << >> THEN new_para_start_flag = "None"
        ELSE LET g == GlyphOf(phrases[1])
             IN  new_para_start_flag =
                     (IF (phrases[1].x0 - border[1]) * g[2] <= g[1]
                      THEN "False" ELSE "True")

\* C6, witness: a page with a paragraph whose first phrase starts more than a
\* glyph width to the left of the border, and whose flag is false.
C6_Witness ==
    /\ pc = "done"
    /\ _paragraphs # << >>
    /\ LET g == GlyphOf(phrases[1])
       IN  (border[1] - phrases[1].x0) * g[2] > g[1]
    /\ new_para_start_flag = "False"

\* C7: with at least one paragraph, new_para_end_flag is false exactly when the
\* right edge of the last processed line is within 1.5 glyph widths, of that
\* last processed line, of the border's right edge.
C7_EndFlagLastLineGlyph ==
    (pc = "done" /\ _paragraphs # << >>) =>
        LET last == Processed[Len(Processed)]
            g == GlyphOf(last)
        IN  new_para_end_flag =
                (IF 2 * g[2] * Abs(last.x1 - border[3]) <= 3 * g[1]
                 THEN "False" ELSE "True")

\* the index, in a paragraph's entries, of the Text that begins the line of
\* entry j: the nearest Text at or before j (0 when there is none)
RECURSIVE LineStart(_, _)
LineStart(objs, j) ==
    IF j = 0 THEN 0
    ELSE IF objs[j].kind = "Text" THEN j
    ELSE LineStart(objs, j - 1)

\* C8: every Span follows, in its paragraph, the Text that begins its line,
\* and its margin-left is its left edge minus the left edge of that Text.
C8_SpanOffsetFromLineStart ==
    pc = "done" =>
        \A p \in 1..Len(_paragraphs) :
            LET objs == _paragraphs[p].inner_objects
            IN  \A j \in 1..Len(objs) :
                    objs[j].kind = "Span" =>
                        /\ LineStart(objs, j) > 0
                        /\ objs[j].ml =
                               objs[j].bbox[1] - objs[LineStart(objs, j)].bbox[1]

\* C9: a paragraph after the page's first one begins with a phrase whose
\* bottom is at least a quarter of its line height below the bottom of the
\* phrase processed before it.
C9_NewParagraphNeedsGap ==
    pc = "done" =>
        \A p \in 2..Len(_paragraphs) :
            LET e == _paragraphs[p].inner_objects[1]
                prev == _paragraphs[p - 1].inner_objects
                q == prev[Len(prev)]
                th == Max(e.bbox[4] - e.bbox[2], ave_cs)
            IN  4 * (e.bbox[4] - q.bbox[4]) >= th

\* C10: a paragraph's style, once a line has given it one, is the style the
\* paragraph is stored with; the page's last paragraph included.
C10_StyleFromFirstStyledLine ==
    [][(pc = "extract_paragraph" /\ pc' = "done"
            /\ loc.paragraph_objects # << >>
            /\ loc.para_style # << >>)
        => _paragraphs'[Len(_paragraphs')].style = loc.para_style]_vars

---------------------------------------------------------------------------
(* Properties of the paragraph-merge example.                              *)

TextOf(i) ==
    [kind |-> "Text", bbox |-> <<i.x0, i.top, i.x1, i.bottom>>, n |-> i.n,
     ml |-> 0]

\* C2, as stated: the two lines come out as one paragraph of two Text entries,
\* A then B.
C2_ExampleMergesIntoOneParagraph ==
    pc = "done" =>
        /\ Len(_paragraphs) = 1
        /\ _paragraphs[1].inner_objects = <<TextOf(phrases[1]), TextOf(phrases[2])>>

\* C2, amended: the two lines come out as one paragraph of two Text entries
\* only when B's text is a single character (a glyph width of 150, so that A's
\* right edge, 200, is within 1.5 glyph widths of the border's right edge,
\* 400); for any longer text of B they come out as two paragraphs of one Text
\* entry each.
C2_ExampleSplitsUnlessOneGlyph ==
    pc = "done" =>
        IF phrases[2].n = 1
        THEN /\ Len(_paragraphs) = 1
             /\ _paragraphs[1].inner_objects =
                    <<TextOf(phrases[1]), TextOf(phrases[2])>>
        ELSE /\ Len(_paragraphs) = 2
             /\ _paragraphs[1].inner_objects = <<TextOf(phrases[1])>>
             /\ _paragraphs[2].inner_objects = <<TextOf(phrases[2])>>

\* C2, witness: the example has run with a text of B of two characters or
\* more, and has produced two paragraphs.
C2_Witness ==
    /\ pc = "done"
    /\ phrases[2].n >= 2
    /\ Len(_paragraphs) = 2

---------------------------------------------------------------------------
(* Properties of analyze_main_frame.                                       *)

Matching(level) ==
    {j \in 1..Len(same) : same[j].mode = orientation /\ same[j].level = level}

\* no head zone of the page's orientation reaches, with the tolerance added,
\* below a tail zone's top or below the page's end, and no tail zone of that
\* orientation starts above the page
ZonesDoNotCross ==
    LET mft == MainFrameTolerance(config, ave_cs)
    IN  /\ \A h \in Matching("head") :
               /\ same[h].bottom + mft <= page.height
               /\ \A t \in Matching("tail") : same[h].bottom + mft <= same[t].top
        /\ \A t \in Matching("tail") : same[t].top >= 0

\* C3, as stated: whatever the zones and the tolerance, frame_top is at most
\* frame_bottom after analyze_main_frame.
C3_FrameTopBelowFrameBottom ==
    pc = "done" => frame_top <= frame_bottom

\* C3, amended: frame_top is at most frame_bottom after analyze_main_frame
\* when the zones of the page's orientation do not cross.
C3_FrameOrderedWhenZonesDoNotCross ==
    (pc = "done" /\ ZonesDoNotCross) => frame_top <= frame_bottom

\* C3, witness: a head and a tail zone of the page's orientation that do not
\* cross, and the frame between them.
C3_Witness ==
    /\ pc = "done"
    /\ ZonesDoNotCross
    /\ Matching("head") # {}
    /\ Matching("tail") # {}
    /\ 0 < frame_top
    /\ frame_top < frame_bottom
    /\ frame_bottom < page.height

---------------------------------------------------------------------------
(* Properties of process_page and of the objects cache.                    *)

\* the list of the last read is the current one
Cached == pc = "idle" /\ _objects # << >>

\* a phrase of the page lies inside a table extract_tables found
InTable(i) ==
    /\ config.table_flag
    /\ \E t \in 1..Len(_tables_raw) : InsideBox(BBox(i), _tables_raw[t])

\* a phrase of the page is one of the words the image-region lookup returned
InImageLookup(i) ==
    /\ config.image_flag
    /\ \E w \in _image_phrases : InsideBox(BBox(i), BBox(w))

\* the phrases the classifications claim
Claimed(i) == InTable(i) \/ InImageLookup(i) \/ i \in pagination_phrases

\* the bounding boxes of the Text and Span entries of the page's paragraphs
ParagraphEntryBoxes ==
    UNION {{_paragraphs[p].inner_objects[e].bbox :
                e \in 1..Len(_paragraphs[p].inner_objects)} :
            p \in 1..Len(_paragraphs)}

\* C1: after process_page, no phrase claimed by the table, image or
\* pagination classification is a Text or Span entry of a paragraph of the
\* page.
C1_ClaimedPhrasesNotInParagraphs ==
    (Cached /\ config.paragraph_flag) =>
        \A j \in 1..Len(phrases) :
            Claimed(phrases[j]) => BBox(phrases[j]) \notin ParagraphEntryBoxes

\* the instance a fresh DePage of the current page, pid and config is after
\* its first read of objects
FreshRead == ProcessPage(NewDePage(page, pid, config, same))

\* C4: whatever reads and reassignments came before, the cached list is the
\* list a fresh DePage of the current page, pid and config returns, and the
\* continuation flags are the fresh instance's.
C4_ObjectsAreThoseOfAFreshPage ==
    Cached =>
        /\ _objects = FreshRead._objects
        /\ new_para_start_flag = FreshRead.new_para_start_flag
        /\ new_para_end_flag = FreshRead.new_para_end_flag

\* C5: process_page never propagates the failure of a page-geometry query.
C5_GeometryFailureNeverPropagates == pc = "idle" => ~raised

---------------------------------------------------------------------------
(* Properties of the paragraph list as a whole.                            *)

\* the entries of the paragraphs ps, one paragraph after the other
RECURSIVE AllEntries(_)
AllEntries(ps) ==
    IF ps = << >> THEN << >>
    ELSE AllEntries(SubSeq(ps, 1, Len(ps) - 1)) \o ps[Len(ps)].inner_objects

\* the phrase an entry was made of: its bounding box and its text's length
PhraseOfEntry(e) ==
    [x0 |-> e.bbox[1], top |-> e.bbox[2], x1 |-> e.bbox[3],
     bottom |-> e.bbox[4], n |-> e.n]

\* C11: after extract_paragraph the entries of the paragraphs, taken in
\* para_idx order, are one Text or Span per phrase that was not skipped, in
\* the phrases' order; no paragraph is empty, and the paragraphs carry
\* para_idx 1, 2, ..., n.
C11_OneEntryPerProcessedPhrase ==
    pc = "done" =>
        LET es == AllEntries(_paragraphs)
        IN  /\ Len(es) = Len(Processed)
            /\ \A j \in 1..Len(es) :
                   /\ es[j].kind \in {"Text", "Span"}
                   /\ PhraseOfEntry(es[j]) = Processed[j]
            /\ \A p \in 1..Len(_paragraphs) :
                   /\ _paragraphs[p].inner_objects # << >>
                   /\ _paragraphs[p].para_idx = p

\* C11, witness: a page of three phrases, one of them skipped, whose other
\* two came out as two paragraphs.
C11_Witness ==
    /\ pc = "done"
    /\ Len(phrases) = MaxPhrases
    /\ Len(Processed) = Len(phrases) - 1
    /\ Len(_paragraphs) = 2
    /\ Len(AllEntries(_paragraphs)) = 2

====
